---- MODULE Spec2Model ----
(***************************************************************************)
(* A model of the dwg-rs bit reader (src/src/bitcodes.rs), the version     *)
(* table (src/src/version.rs) and the header / free-space readers          *)
(* (src/src/dwg.rs).                                                       *)
(*                                                                         *)
(* Machine words wider than 31 bits are kept as bit vectors: sequences of  *)
(* 0/1, least significant bit first.  Signed values of at most 32 bits are *)
(* kept as integers.                                                       *)
(***************************************************************************)
EXTENDS Integers, Sequences, FiniteSets, TLC

VARIABLES
    src,          \* the octets the wrapped iterator yields, in order
    pos,          \* how many octets the iterator has yielded so far
    cur_byte,     \* BitReader.cur_byte
    cur_bit,      \* BitReader.cur_bit
    version,      \* BitReader.version
    version_set,  \* history: set_version has been called on this reader
    op,           \* history: the last call made on the reader
    arg,          \* history: the argument of the last call (N of read_bits)
    ret,          \* history: what the last call returned
    pre           \* history: the cursor as it was when the last call started

vars == <<src, pos, cur_byte, cur_bit, version, version_set, op, arg, ret, pre>>

(***************************************************************************)
(* Bounds of the model.                                                    *)
(***************************************************************************)
\* The longest byte source of the cursor specifications.
MaxLen == 5

\* The most section-locator records of a header image.
MaxRecords == 2

\* The longest byte source of the modular decoders' specification.
MaxChunkBytes == 6

(***************************************************************************)
(* Program constants.                                                      *)
(***************************************************************************)
BITS_PER_BYTE == 8

\* Discriminants of enum DWGVersion, in declaration order.
AC1012 == 0
AC1014 == 1
AC1015 == 2
AC1018 == 3
AC1021 == 4
AC1027 == 5
AC1032 == 6

DWGVersion == {AC1012, AC1014, AC1015, AC1018, AC1021, AC1027, AC1032}

(***************************************************************************)
(* Bit vectors and the integer conversions ("as") the code performs.       *)
(***************************************************************************)
Zeros(w) == [i \in 1..w |-> 0]

\* The low w bits of the non-negative integer x (x < 2^31).
UBits(x, w) == [i \in 1..w |-> IF i > 31 THEN 0 ELSE (x \div (2 ^ (i - 1))) % 2]

\* The unsigned value of a bit vector of at most 31 bits.
RECURSIVE UVal(_)
UVal(b) == IF b = <<>> THEN 0 ELSE b[1] + 2 * UVal(Tail(b))

\* The two's-complement value of a bit vector of at most 32 bits.
RECURSIVE SValFrom(_, _, _)
SValFrom(b, i, acc) == IF i = 0 THEN acc ELSE SValFrom(b, i - 1, 2 * acc + b[i])

SVal(b) == SValFrom(b, Len(b) - 1, 0 - b[Len(b)])

\* The w-bit two's-complement pattern of the integer x.
SBits(x, w) ==
    IF x >= 0 THEN UBits(x, w)
    ELSE LET m == UBits(0 - (x + 1), w) IN [i \in 1..w |-> 1 - m[i]]

Low(b, w) == [i \in 1..w |-> b[i]]

ZeroExtend(b, w) == [i \in 1..w |-> IF i <= Len(b) THEN b[i] ELSE 0]

\* b << s, within the width of b: bits shifted past the top are lost.
ShlBits(b, s) == [i \in 1..Len(b) |-> IF i - s >= 1 THEN b[i - s] ELSE 0]

OrBits(a, b) == [i \in 1..Len(a) |-> IF a[i] = 1 \/ b[i] = 1 THEN 1 ELSE 0]

\* Bitwise and of two small non-negative integers.
RECURSIVE BitAnd(_, _)
BitAnd(a, b) ==
    IF a = 0 \/ b = 0 THEN 0
    ELSE (a % 2) * (b % 2) + 2 * BitAnd(a \div 2, b \div 2)

(***************************************************************************)
(* The reader, and the outcomes of a call.                                 *)
(***************************************************************************)
Rd == [cur_byte |-> cur_byte, cur_bit |-> cur_bit, pos |-> pos, version |-> version]

\* a mutant: a new reader assumes the latest release.
NewAssumesLatest == [cur_byte |-> 0, cur_bit |-> 8, pos |-> 0, version |-> AC1032]

\* BitReader::new
New == [cur_byte |-> 0, cur_bit |-> 8, pos |-> 0, version |-> AC1015]

\* The cursor of a reader: all of it but the version.
Cursor(r) == [cur_byte |-> r.cur_byte, cur_bit |-> r.cur_bit, pos |-> r.pos]

\* The reader at cursor c, with the version the reader has now.
At(c) == [cur_byte |-> c.cur_byte, cur_bit |-> c.cur_bit, pos |-> c.pos, version |-> version]

Some(r, v) == [rd |-> r, tag |-> "Some", val |-> v]
None(r) == [rd |-> r, tag |-> "None", val |-> <<>>]
Panic(r) == [rd |-> r, tag |-> "Panic", val |-> <<>>]

\* self.iter.next() has an octet to give
IterHasNext(r) == r.pos < Len(src)

\* the reader after self.cur_byte = *byte; self.cur_bit = 0
Refill(r) == [r EXCEPT !.cur_byte = src[r.pos + 1], !.cur_bit = 0, !.pos = r.pos + 1]

(***************************************************************************)
(* BitReader::read_bits                                                    *)
(***************************************************************************)
\* let bits_read = if n > rem_bits { rem_bits } else { n };
BitsRead(n, rem_bits) == IF n > rem_bits THEN rem_bits ELSE n

\* a mutant: the current octet is not shifted down to the cursor.
ChunkUnshifted(byte, bit, bits_read) == BitAnd((2 ^ bits_read) - 1, byte)

\* mask & (self.cur_byte >> self.cur_bit) as u32
Chunk(byte, bit, bits_read) == BitAnd((2 ^ bits_read) - 1, byte \div (2 ^ bit))

\* a mutant: every chunk is or-ed in at bit 0.
AccumulateUnshifted(res, chunk, shift) == OrBits(res, UBits(chunk, 32))

\* res |= chunk << (N - n)
Accumulate(res, chunk, shift) == OrBits(res, ShlBits(UBits(chunk, 32), shift))

\* a mutant: a read that runs dry after its first chunk returns what it has.
ExhaustedTruncates(r, N, n, res) == IF n < N THEN Some(r, res) ELSE None(r)

\* } else { return None; }
Exhausted(r, N, n, res) == None(r)

RECURSIVE ReadBitsLoop(_, _, _, _)
ReadBitsLoop(r, N, n, res) ==
    IF n = 0 THEN Some(r, res)
    ELSE IF BITS_PER_BYTE - r.cur_bit = 0 /\ ~IterHasNext(r) THEN Exhausted(r, N, n, res)
    ELSE LET r1 == IF BITS_PER_BYTE - r.cur_bit = 0 THEN Refill(r) ELSE r
             rem_bits == BITS_PER_BYTE - r1.cur_bit
             bits_read == BitsRead(n, rem_bits)
             res1 == Accumulate(res, Chunk(r1.cur_byte, r1.cur_bit, bits_read), N - n)
         IN  ReadBitsLoop([r1 EXCEPT !.cur_bit = @ + bits_read], N, n - bits_read, res1)

\* a mutant: a read that fails puts the cursor back where it started.
read_bits_rewinding(r, N) ==
    LET x == ReadBitsLoop(r, N, N, Zeros(32))
    IN  IF x.tag = "None" THEN None(r) ELSE x

\* a mutant: a read that ends on the last bit of an octet pulls the next
\* octet at once.
read_bits_prefetching(r, N) ==
    LET x == ReadBitsLoop(r, N, N, Zeros(32))
    IN  IF x.tag = "Some" /\ x.rd.cur_bit = BITS_PER_BYTE /\ IterHasNext(x.rd)
        THEN [x EXCEPT !.rd = Refill(x.rd)]
        ELSE x

read_bits(r, N) == ReadBitsLoop(r, N, N, Zeros(32))

(***************************************************************************)
(* The `?` operator: go on with a Some, hand anything else to the caller.  *)
(***************************************************************************)
Try(res, K(_)) == IF res.tag = "Some" THEN K(res) ELSE [res EXCEPT !.val = <<>>]

\* Option::map
Map(res, F(_)) == IF res.tag = "Some" THEN Some(res.rd, F(res.val)) ELSE res

(***************************************************************************)
(* DWGVersion (src/src/version.rs)                                         *)
(***************************************************************************)
\* a mutant: the arms of AC1018 and AC1021 are exchanged.
from_magic_swapped(magic) ==
    CASE magic = <<65, 67, 49, 48, 49, 50>> -> [tag |-> "Some", val |-> AC1012]
      [] magic = <<65, 67, 49, 48, 49, 52>> -> [tag |-> "Some", val |-> AC1014]
      [] magic = <<65, 67, 49, 48, 49, 53>> -> [tag |-> "Some", val |-> AC1015]
      [] magic = <<65, 67, 49, 48, 49, 56>> -> [tag |-> "Some", val |-> AC1021]
      [] magic = <<65, 67, 49, 48, 50, 49>> -> [tag |-> "Some", val |-> AC1018]
      [] magic = <<65, 67, 49, 48, 50, 55>> -> [tag |-> "Some", val |-> AC1027]
      [] magic = <<65, 67, 49, 48, 51, 50>> -> [tag |-> "Some", val |-> AC1032]
      [] OTHER -> [tag |-> "None", val |-> <<>>]

\* DWGVersion::from_magic, on the six octets of b"AC1012" ... b"AC1032"
from_magic(magic) ==
    CASE magic = <<65, 67, 49, 48, 49, 50>> -> [tag |-> "Some", val |-> AC1012]
      [] magic = <<65, 67, 49, 48, 49, 52>> -> [tag |-> "Some", val |-> AC1014]
      [] magic = <<65, 67, 49, 48, 49, 53>> -> [tag |-> "Some", val |-> AC1015]
      [] magic = <<65, 67, 49, 48, 49, 56>> -> [tag |-> "Some", val |-> AC1018]
      [] magic = <<65, 67, 49, 48, 50, 49>> -> [tag |-> "Some", val |-> AC1021]
      [] magic = <<65, 67, 49, 48, 50, 55>> -> [tag |-> "Some", val |-> AC1027]
      [] magic = <<65, 67, 49, 48, 51, 50>> -> [tag |-> "Some", val |-> AC1032]
      [] OTHER -> [tag |-> "None", val |-> <<>>]

\* mutants: the comparisons are strict.
VersionLt(a, b) == a < b
VersionGt(a, b) == a > b

\* The comparisons of DWGVersion the decoders use (<=, >=): the order of the
\* variants' declaration.
VersionLe(a, b) == a <= b
VersionGe(a, b) == a >= b

(***************************************************************************)
(* BitReader: the version, and the raw reads.                              *)
(***************************************************************************)
set_version(r, v) == [r EXCEPT !.version = v]

\* for byte in bytes.iter_mut() { *byte = self.read_bits::<8>()? as u8; }
RECURSIVE ReadVersionLoop(_, _)
ReadVersionLoop(r, bytes) ==
    IF Len(bytes) = 6 THEN Some(r, bytes)
    ELSE Try(read_bits(r, 8),
             LAMBDA x : ReadVersionLoop(x.rd, Append(bytes, UVal(Low(x.val, 8)))))

read_version(r) ==
    Try(ReadVersionLoop(r, <<>>),
        LAMBDA b : LET v == from_magic(b.val)
                   IN  IF v.tag = "Some" THEN Some(b.rd, v.val) ELSE None(b.rd))

read_bit(r) == Map(read_bits(r, 1), LAMBDA x : UVal(Low(x, 8)))

\* for _ in 0..3 { let bit = self.read_bit()?; byte = byte << 1 | bit;
\*                 if bit == 0 { break; } }
RECURSIVE TripletLoop(_, _, _)
TripletLoop(r, i, byte) ==
    IF i = 3 THEN Some(r, byte)
    ELSE Try(read_bit(r), LAMBDA bit :
             LET byte1 == (2 * byte + bit.val) % 256
             IN  IF bit.val = 0 THEN Some(bit.rd, byte1)
                 ELSE TripletLoop(bit.rd, i + 1, byte1))

read_bit_triplet(r) == TripletLoop(r, 0, 0)

\* a mutant: the octet is taken as unsigned.
read_raw_char_unsigned(r) == Map(read_bits(r, 8), LAMBDA x : UVal(Low(x, 8)))

\* x as i8
read_raw_char(r) == Map(read_bits(r, 8), LAMBDA x : SVal(Low(x, 8)))

\* x as i16
read_raw_short(r) == Map(read_bits(r, 16), LAMBDA x : SVal(Low(x, 16)))

\* x as i32
read_raw_long(r) == Map(read_bits(r, 32), LAMBDA x : SVal(x))

\* (x2 << 32 | x1), for x1 and x2 of 64 bits
Combine64(x1, x2) == OrBits(ShlBits(x2, 32), x1)

\* x1 and x2 are read_bits::<32>()? as u64: zero-extended
read_raw_longlong(r) ==
    Try(read_bits(r, 32), LAMBDA x1 :
    Try(read_bits(x1.rd, 32), LAMBDA x2 :
        Some(x2.rd, Combine64(ZeroExtend(x1.val, 64), ZeroExtend(x2.val, 64)))))

(***************************************************************************)
(* BitReader: the selector-coded and the modular decoders.                 *)
(***************************************************************************)
\* the 2-bit selector, as a number
Flag(x) == UVal(Low(x, 2))

read_bitshort(r) ==
    Try(read_bits(r, 2), LAMBDA flag :
        CASE Flag(flag.val) = 0 -> read_raw_short(flag.rd)
          [] Flag(flag.val) = 1 -> Map(read_bits(flag.rd, 8), LAMBDA x : SVal(Low(x, 16)))
          [] Flag(flag.val) = 2 -> Some(flag.rd, 0)
          [] Flag(flag.val) = 3 -> Some(flag.rd, 256))

\* a mutant: selectors 2 and 3 are exchanged.
read_bitlong_swapped(r) ==
    Try(read_bits(r, 2), LAMBDA flag :
        CASE Flag(flag.val) = 0 -> read_raw_long(flag.rd)
          [] Flag(flag.val) = 1 -> Map(read_bits(flag.rd, 8), LAMBDA x : SVal(x))
          [] Flag(flag.val) = 2 -> Some(flag.rd, 256)
          [] Flag(flag.val) = 3 -> Some(flag.rd, 0))

read_bitlong(r) ==
    Try(read_bits(r, 2), LAMBDA flag :
        CASE Flag(flag.val) = 0 -> read_raw_long(flag.rd)
          [] Flag(flag.val) = 1 -> Map(read_bits(flag.rd, 8), LAMBDA x : SVal(x))
          [] Flag(flag.val) = 2 -> Some(flag.rd, 0)
          [] Flag(flag.val) = 3 -> Some(flag.rd, 256))

\* x as u64, for x an i32: the sign is extended
I32asU64(x) == SBits(x, 64)

\* The value is the 64-bit pattern of the i64.
read_bitlonglong(r) ==
    Try(read_bits(r, 2), LAMBDA flag :
        CASE Flag(flag.val) = 0 ->
                Try(read_raw_long(flag.rd), LAMBDA x1 :
                Try(read_raw_long(x1.rd), LAMBDA x2 :
                    Some(x2.rd, Combine64(I32asU64(x1.val), I32asU64(x2.val)))))
          [] Flag(flag.val) = 1 -> Map(read_bits(flag.rd, 8), LAMBDA x : ZeroExtend(x, 64))
          [] Flag(flag.val) = 2 -> Some(flag.rd, Zeros(64))
          [] Flag(flag.val) = 3 -> Some(flag.rd, UBits(256, 64)))

\* The bit patterns of the f64 literals 0.0 and 1.0 (0x3FF0000000000000).
F64_0 == Zeros(64)
F64_1 == [i \in 1..64 |-> IF i \in 53..62 THEN 1 ELSE 0]

\* f64::from_bits(x2 << 32 | x1): the value is the 64-bit pattern
read_raw_double(r) ==
    Try(read_bits(r, 32), LAMBDA x1 :
    Try(read_bits(x1.rd, 32), LAMBDA x2 :
        Some(x2.rd, Combine64(ZeroExtend(x1.val, 64), ZeroExtend(x2.val, 64)))))

\* _ => unreachable!() panics on selector 3
read_bitdouble(r) ==
    Try(read_bits(r, 2), LAMBDA flag :
        CASE Flag(flag.val) = 0 -> read_raw_double(flag.rd)
          [] Flag(flag.val) = 1 -> Some(flag.rd, F64_1)
          [] Flag(flag.val) = 2 -> Some(flag.rd, F64_0)
          [] OTHER -> Panic(flag.rd))

\* The loop of read_modular_char (width 8) and read_modular_short (width
\* 16).  `res |= payload << (i * (width - 1))` on an i32: a shift of 32 or
\* more panics in a build with overflow checks and is taken modulo 32 in a
\* build without; bits shifted past bit 31 are lost in both.
RECURSIVE ModularLoop(_, _, _, _, _)
ModularLoop(r, i, res, width, overflow_checks) ==
    Try(read_bits(r, width), LAMBDA x :
        LET chunk == Low(x.val, width)
            payload == ZeroExtend([chunk EXCEPT ![width] = 0], 32)
            shift == i * (width - 1)
            res1 == OrBits(res, ShlBits(payload, shift % 32))
        IN  IF shift >= 32 /\ overflow_checks THEN Panic(x.rd)
            ELSE IF chunk[width] = 0 THEN Some(x.rd, SVal(res1))
            ELSE ModularLoop(x.rd, i + 1, res1, width, overflow_checks))

read_modular_char(r, overflow_checks) == ModularLoop(r, 0, Zeros(32), 8, overflow_checks)

read_modular_short(r, overflow_checks) == ModularLoop(r, 0, Zeros(32), 16, overflow_checks)

(***************************************************************************)
(* BitReader: the decoders that branch on the version.                     *)
(***************************************************************************)
\* The value is the triple of the three doubles' patterns.
read_bit_extrusion(r) ==
    LET bit == IF VersionGe(r.version, AC1015) THEN read_bit(r) ELSE Some(r, 0)
    IN  Try(bit, LAMBDA b :
            IF VersionGe(r.version, AC1015) /\ b.val = 1
            THEN Some(b.rd, <<F64_0, F64_0, F64_1>>)
            ELSE Try(read_bitdouble(b.rd), LAMBDA x1 :
                 Try(read_bitdouble(x1.rd), LAMBDA x2 :
                 Try(read_bitdouble(x2.rd), LAMBDA x3 :
                     Some(x3.rd, <<x1.val, x2.val, x3.val>>)))))

read_bitdouble_with_default(r) ==
    LET bit == IF VersionGe(r.version, AC1015) THEN read_bit(r) ELSE Some(r, 0)
    IN  Try(bit, LAMBDA b :
            IF VersionGe(r.version, AC1015) /\ b.val = 1
            THEN Some(b.rd, F64_0)
            ELSE read_bitdouble(b.rd))

\* x as i16 + 0x1f0
read_object_type(r) ==
    IF VersionLe(r.version, AC1021) THEN read_bitshort(r)
    ELSE Try(read_bits(r, 2), LAMBDA flags :
             CASE Flag(flags.val) = 0 -> read_raw_char(flags.rd)
               [] Flag(flags.val) = 1 -> Map(read_raw_char(flags.rd), LAMBDA x : x + 496)
               [] OTHER -> read_raw_short(flags.rd))

(***************************************************************************)
(* read_obj_free_space (src/src/dwg.rs)                                    *)
(***************************************************************************)
\* `count` times in a row: bit_reader.read_raw_longlong()?
RECURSIVE LongLongs(_, _)
LongLongs(r, count) ==
    IF count = 0 THEN Some(r, <<>>)
    ELSE Try(read_raw_longlong(r), LAMBDA x : LongLongs(x.rd, count - 1))

read_obj_free_space(r) ==
    IF VersionLe(r.version, AC1021)
    THEN Try(read_raw_long(r), LAMBDA x :
         Try(read_raw_long(x.rd), LAMBDA approx_n_objects :
         Try(read_raw_longlong(approx_n_objects.rd), LAMBDA y :
         Try(read_raw_long(y.rd), LAMBDA object_section_offset :
         Try(read_raw_char(object_section_offset.rd), LAMBDA n_64b_vals :
             LongLongs(n_64b_vals.rd, 4))))))
    ELSE LongLongs(r, 11)

(***************************************************************************)
(* read_r2000_header (src/src/dwg.rs)                                      *)
(***************************************************************************)
\* the sentinel after the crc
sentinel == <<149, 160, 78, 40, 153, 130, 26, 229, 94, 65, 224, 95, 157, 58, 77, 0>>

\* x as u8, for x an i8
I8asU8(x) == (x + 256) % 256

\* assert_eq!(res, 0)
ReservedCheck(c) == c = 0

\* for _ in 0..5 { let res = bit_reader.read_raw_char()?; assert_eq!(res, 0); }
RECURSIVE ReservedLoop(_, _)
ReservedLoop(r, i) ==
    IF i = 5 THEN Some(r, <<>>)
    ELSE Try(read_raw_char(r), LAMBDA c :
             IF ReservedCheck(c.val) THEN ReservedLoop(c.rd, i + 1) ELSE Panic(c.rd))

\* assert_eq!(bit_reader.read_raw_char(), Some(1)): the read is not
\* followed by `?`, so a None fails the assertion too.
LiteralOne(r) ==
    LET c == read_raw_char(r)
    IN  IF c.tag = "Some" /\ c.val = 1 THEN Some(c.rd, <<>>) ELSE Panic(c.rd)

\* a mutant: the loop reads one record more than n_records.
RecordsDoneLate(i, n_records) == i > n_records

\* the end of the range 0..n_records
RecordsDone(i, n_records) == i >= n_records

\* for _record in 0..n_records { _unused; _seeker; _size }.  The records
\* read are collected, in the order read, for the properties' sake: the
\* code drops them.
RECURSIVE RecordsLoop(_, _, _, _)
RecordsLoop(r, i, n_records, records) ==
    IF RecordsDone(i, n_records) THEN Some(r, records)
    ELSE Try(read_raw_char(r), LAMBDA unused :
         Try(read_raw_long(unused.rd), LAMBDA seeker :
         Try(read_raw_long(seeker.rd), LAMBDA size :
             RecordsLoop(size.rd, i + 1, n_records,
                         Append(records, <<unused.val, seeker.val, size.val>>)))))

\* for byte in sentinel { assert_eq!(byte, bit_reader.read_raw_char()? as u8); }
RECURSIVE SentinelLoop(_, _)
SentinelLoop(r, j) ==
    IF j > Len(sentinel) THEN Some(r, <<>>)
    ELSE Try(read_raw_char(r), LAMBDA c :
             IF sentinel[j] = I8asU8(c.val) THEN SentinelLoop(c.rd, j + 1)
             ELSE Panic(c.rd))

\* Returns Some(()); the value here is the list of records read.
read_r2000_header(r) ==
    Try(read_version(r), LAMBDA v :
    Try(ReservedLoop(set_version(v.rd, v.val), 0), LAMBDA reserved :
    Try(read_raw_char(reserved.rd), LAMBDA skipped :
    Try(LiteralOne(skipped.rd), LAMBDA one :
    Try(read_raw_long(one.rd), LAMBDA image_sentinel_seeker :
    Try(read_raw_char(image_sentinel_seeker.rd), LAMBDA unknown :
    Try(read_raw_long(unknown.rd), LAMBDA n_records :
    Try(RecordsLoop(n_records.rd, 0, n_records.val, <<>>), LAMBDA records :
    Try(read_raw_short(records.rd), LAMBDA crc :
    Try(SentinelLoop(crc.rd, 1), LAMBDA done :
        Some(done.rd, records.val)))))))))))

(***************************************************************************)
(* Byte sources: every prefix, up to MaxLen octets, of the streams         *)
(* seed, seed + step, seed + 2 * step, ... (mod 256).                      *)
(***************************************************************************)
Seeds == {255, 165}
Steps == {222, 59}

Stream(seed, step, len) == [i \in 1..len |-> (seed + (i - 1) * step) % 256]

Sources == {Stream(seed, step, len) : seed \in Seeds, step \in Steps, len \in 0..MaxLen}

(***************************************************************************)
(* The state after BitReader::new(src.iter()), and the effect of a call.   *)
(***************************************************************************)
InitReader ==
    /\ pos = New.pos
    /\ cur_byte = New.cur_byte
    /\ cur_bit = New.cur_bit
    /\ version = New.version
    /\ version_set = FALSE
    /\ op = "new"
    /\ arg = 0
    /\ ret = [tag |-> "Some", val |-> <<>>]
    /\ pre = Cursor(New)

\* The call `name` ran on the reader and ended as `res`.  A panic unwinds
\* through the caller: no call follows it.
Return(name, a, res, vset) ==
    /\ ret.tag # "Panic"
    /\ op' = name
    /\ arg' = a
    /\ pre' = Cursor(Rd)
    /\ pos' = res.rd.pos
    /\ cur_byte' = res.rd.cur_byte
    /\ cur_bit' = res.rd.cur_bit
    /\ version' = res.rd.version
    /\ version_set' = vset
    /\ ret' = [tag |-> res.tag, val |-> res.val]
    /\ UNCHANGED src

\* The widths read_bits accepts: assert!(32 >= N); assert!(N > 0).
Widths == 1..32

Call_read_bits(N) == Return("read_bits", N, read_bits(Rd, N), version_set)

(***************************************************************************)
(* Spec: a reader over a byte source, read with read_bits of any width.    *)
(***************************************************************************)
Init == src \in Sources /\ InitReader

Next == \E N \in Widths : Call_read_bits(N)

Spec == Init /\ [][Next]_vars

(***************************************************************************)
(* Measures of the cursor used by the properties.                          *)
(***************************************************************************)
\* The number of stream bits a reader has consumed.
BitPos(r) == 8 * r.pos - (8 - r.cur_bit)

\* The number of stream bits a reader has left.
Remaining(r) == (8 - r.cur_bit) + 8 * (Len(src) - r.pos)

\* Bit k of the octets s: bit (k mod 8), counted from the low bit, of octet
\* (k div 8).
BitOf(s, k) == (s[(k \div 8) + 1] \div (2 ^ (k % 8))) % 2

\* The w-bit vector holding the n bits of s from bit p on, low bit first.
BitsOf(s, p, n, w) == [i \in 1..w |-> IF i <= n THEN BitOf(s, p + i - 1) ELSE 0]

\* The same of the reader's source.
StreamBit(k) == BitOf(src, k)
StreamBits(p, n, w) == BitsOf(src, p, n, w)

(***************************************************************************)
(* C1: read_bits(n), with at least n bits left, returns the value whose    *)
(* bit i is stream bit p + i for i < n (p the bits consumed before the     *)
(* call), with every higher bit 0, and advances the cursor by n bits.      *)
(***************************************************************************)
C1_ReadBitsExact ==
    (op = "read_bits" /\ Remaining(pre) >= arg) =>
        /\ ret.tag = "Some"
        /\ ret.val = StreamBits(BitPos(pre), arg, 32)
        /\ BitPos(Rd) = BitPos(pre) + arg

\* a 32-bit read that starts inside an octet and spans five octets
C1_Witness ==
    /\ op = "read_bits" /\ arg = 32 /\ ret.tag = "Some"
    /\ pre.cur_bit \in 1..7
    /\ pos = pre.pos + 4
    /\ ret.val[32] = 1

(***************************************************************************)
(* C2: read_bits(a) = x followed by read_bits(b) = y equals read_bits(a+b) *)
(* from the same state: the latter returns x + y * 2^a and ends in the     *)
(* same cursor state.  The first read is the last call made; the second    *)
(* and the combined read are run from its end and from its start.          *)
(***************************************************************************)
\* the bits of x + y * 2^a, for x < 2^a and y < 2^b
Joined(x, a, y, b) ==
    [i \in 1..32 |-> IF i <= a THEN x[i] ELSE IF i <= a + b THEN y[i - a] ELSE 0]

C2_ChunkedReadsAssociate ==
    (op = "read_bits" /\ ret.tag = "Some") =>
        \A b \in Widths :
            (arg + b <= 32 /\ Remaining(Rd) >= b) =>
                LET second == read_bits(Rd, b)
                    whole == read_bits(At(pre), arg + b)
                IN  /\ second.tag = "Some"
                    /\ whole.tag = "Some"
                    /\ \A i \in (arg + 1)..32 : ret.val[i] = 0
                    /\ \A i \in (b + 1)..32 : second.val[i] = 0
                    /\ whole.val = Joined(ret.val, arg, second.val, b)
                    /\ whole.rd = second.rd

\* a first read that ends inside an octet, with room for a second read
\* that crosses into the next octets
C2_Witness ==
    /\ op = "read_bits" /\ ret.tag = "Some" /\ arg = 5
    /\ pre.cur_bit = 6
    /\ Remaining(Rd) >= 27
    /\ read_bits(Rd, 27).val # Zeros(32)

(***************************************************************************)
(* C3: read_bits(n) returns None exactly when fewer than n bits remain,    *)
(* and then returns no value.                                              *)
(***************************************************************************)
C3_ExhaustedIffTooFewBits ==
    op = "read_bits" =>
        /\ ret.tag \in {"Some", "None"}
        /\ (ret.tag = "None") <=> (Remaining(pre) < arg)
        /\ ret.tag = "None" => ret.val = <<>>

\* a read that found some bits, but fewer than it asked for
C3_Witness ==
    /\ op = "read_bits" /\ ret.tag = "None"
    /\ Remaining(pre) > 0
    /\ Remaining(pre) < arg

(***************************************************************************)
(* SpecHeader: read_r2000_header over header images.  The images are the   *)
(* well-formed headers of up to MaxRecords records, each of them with one  *)
(* octet replaced, and each of their proper prefixes.                      *)
(***************************************************************************)
Tokens == {m \in {<<65, 67, 49, 48, d1, d2>> : d1 \in 49..51, d2 \in 48..57} :
               from_magic(m).tag = "Some"}

\* the four octets of the 32-bit value x, low octet first
LE32(x) == LET b == SBits(x, 32) IN [k \in 1..4 |-> UVal(SubSeq(b, 8 * k - 7, 8 * k))]

\* the octets that are free in a header are filled with fill, fill + 1, ...
Filler(fill, from, len) == [k \in 1..len |-> (fill + from + k) % 256]

WellFormed(magic, fill, n) ==
    magic \o <<0, 0, 0, 0, 0>> \o <<fill>> \o <<1>> \o Filler(fill, 0, 4) \o <<fill>>
          \o LE32(n) \o Filler(fill, 4, 9 * n) \o Filler(fill, 1, 2) \o sentinel

FillBytes == {7, 250}
MutBytes == {0, 1, 255}

WellFormedHeaders ==
    {WellFormed(magic, fill, n) : magic \in Tokens, fill \in FillBytes, n \in 0..MaxRecords}

HeaderInputs ==
    WellFormedHeaders
    \cup UNION {{[h EXCEPT ![p] = x] : p \in 1..Len(h), x \in MutBytes} : h \in WellFormedHeaders}
    \cup UNION {{SubSeq(h, 1, k) : k \in 0..(Len(h) - 1)} : h \in WellFormedHeaders}

InitHeader == src \in HeaderInputs /\ InitReader

Call_read_r2000_header ==
    Return("read_r2000_header", 0, read_r2000_header(Rd),
           version_set \/ read_version(Rd).tag = "Some")

NextHeader == Call_read_r2000_header

SpecHeader == InitHeader /\ [][NextHeader]_vars

(***************************************************************************)
(* What the header layout of the specification says of a byte image.       *)
(***************************************************************************)
\* bytes 18-21 (from 0): the section-locator record count, little-endian
CountOf(s) == SVal(BitsOf(s, 8 * 18, 32, 32))

\* magic, a record count n >= 0, and the length 40 + 9n that goes with it
OtherwiseWellFormed(s) ==
    /\ Len(s) >= 22
    /\ SubSeq(s, 1, 6) \in Tokens
    /\ CountOf(s) >= 0
    /\ Len(s) = 40 + 9 * CountOf(s)

ReservedZero(s) == \A i \in 7..11 : s[i] = 0
LiteralIsOne(s) == s[13] = 1
SentinelIntact(s) == \A j \in 1..16 : s[Len(s) - 16 + j] = sentinel[j]

WellFormedHeader(s) ==
    OtherwiseWellFormed(s) /\ ReservedZero(s) /\ LiteralIsOne(s) /\ SentinelIntact(s)

\* record i (from 1) of a header image: unused byte, seeker, size
RecordAt(s, i) ==
    LET at == 8 * (22 + 9 * (i - 1))
    IN  <<SVal(BitsOf(s, at, 8, 8)), SVal(BitsOf(s, at + 8, 32, 32)),
          SVal(BitsOf(s, at + 40, 32, 32))>>

FirstHeaderCall == op = "read_r2000_header" /\ pre = Cursor(New)

(***************************************************************************)
(* C4: on a header that is well-formed but for a non-zero reserved byte    *)
(* (offsets 6..10), a byte at offset 12 that is not 1, or a wrong sentinel *)
(* byte, read_r2000_header hands a failure back to its caller: it neither  *)
(* succeeds nor aborts.                                                    *)
(***************************************************************************)
C4_MalformedIsReturned ==
    (/\ FirstHeaderCall
     /\ OtherwiseWellFormed(src)
     /\ ~(ReservedZero(src) /\ LiteralIsOne(src) /\ SentinelIntact(src)))
        => ret.tag \notin {"Some", "Panic"}

(***************************************************************************)
(* C5: read_r2000_header over a proper prefix of a well-formed header      *)
(* returns None (the stream is exhausted): no success, no abort.           *)
(***************************************************************************)
ProperPrefixOfWellFormed(s) ==
    \E h \in WellFormedHeaders : Len(s) < Len(h) /\ s = SubSeq(h, 1, Len(s))

C5_TruncatedIsExhausted ==
    (FirstHeaderCall /\ ProperPrefixOfWellFormed(src)) => ret.tag = "None"

OldFreeSpaceBytes == 4 + 4 + 8 + 4 + 1 + 4 * 8
NewFreeSpaceBytes == 11 * 8

VersionSources ==
    {Stream(seed, 222, len) : seed \in {255, 164}, len \in 0..MaxLen}
    \cup {Stream(255, 222, OldFreeSpaceBytes)}

InitVersion == src \in VersionSources /\ InitReader

Call_set_version(v) ==
    Return("set_version", v, Some(set_version(Rd, v), <<>>), TRUE)

Call_read_bit_extrusion ==
    Return("read_bit_extrusion", 0, read_bit_extrusion(Rd), version_set)

Call_read_bitdouble_with_default ==
    Return("read_bitdouble_with_default", 0, read_bitdouble_with_default(Rd), version_set)

Call_read_object_type ==
    Return("read_object_type", 0, read_object_type(Rd), version_set)

Call_read_obj_free_space ==
    Return("read_obj_free_space", 0, read_obj_free_space(Rd), version_set)

NextVersion ==
    \/ \E v \in DWGVersion : Call_set_version(v)
    \/ Call_read_bit_extrusion
    \/ Call_read_bitdouble_with_default
    \/ Call_read_object_type
    \/ Call_read_obj_free_space

SpecVersion == InitVersion /\ [][NextVersion]_vars

GatedOps ==
    {"read_bit_extrusion", "read_bitdouble_with_default", "read_object_type",
     "read_obj_free_space"}

C12_ExtrusionGate ==
    op = "read_bit_extrusion" =>
        LET p == BitPos(pre)
        IN  IF version \in {AC1015, AC1018, AC1021, AC1027, AC1032}
            THEN (Remaining(pre) >= 1 /\ StreamBit(p) = 1) =>
                    /\ ret = [tag |-> "Some", val |-> <<F64_0, F64_0, F64_1>>]
                    /\ BitPos(Rd) = p + 1
            ELSE LET x1 == read_bitdouble(At(pre))
                     x2 == read_bitdouble(x1.rd)
                     x3 == read_bitdouble(x2.rd)
                 IN  /\ x1.tag # "Some" => (ret.tag = x1.tag /\ Cursor(Rd) = Cursor(x1.rd))
                     /\ (x1.tag = "Some" /\ x2.tag # "Some") =>
                            (ret.tag = x2.tag /\ Cursor(Rd) = Cursor(x2.rd))
                     /\ (x1.tag = "Some" /\ x2.tag = "Some") =>
                            /\ ret.tag = x3.tag
                            /\ Cursor(Rd) = Cursor(x3.rd)
                            /\ x3.tag = "Some" => ret.val = <<x1.val, x2.val, x3.val>>
                     /\ ret.tag = "Some" => BitPos(Rd) >= p + 6
                     /\ (ret.tag = "Some" /\ StreamBit(p) = 1) =>
                            (StreamBit(p + 1) = 0 /\ ret.val[1] = F64_1)

\* an early release: a leading 1 bit is the low bit of the first double's
\* selector, and three doubles are read
C12_Witness ==
    /\ op = "read_bit_extrusion" /\ ret.tag = "Some"
    /\ version \in {AC1012, AC1014}
    /\ StreamBit(BitPos(pre)) = 1
    /\ ret.val # <<F64_0, F64_0, F64_1>>

\* a later release: the leading 1 bit short-circuits
C12_WitnessShortCircuit ==
    /\ op = "read_bit_extrusion" /\ ret.tag = "Some"
    /\ version = AC1027
    /\ BitPos(Rd) = BitPos(pre) + 1

(***************************************************************************)
(* SpecMagic: read_version over six-octet magics, and shorter ones.        *)
(***************************************************************************)
MagicInputs ==
    LET six == {<<a, 67, 49, d2, d3, d4>> :
                    a \in {65, 97}, d2 \in {48, 49}, d3 \in 49..51, d4 \in 48..57}
    IN  six \cup {SubSeq(m, 1, k) : m \in six, k \in {0, 5}}

InitMagic == src \in MagicInputs /\ InitReader

Call_read_version == Return("read_version", 0, read_version(Rd), version_set)

NextMagic == Call_read_version

SpecMagic == InitMagic /\ [][NextMagic]_vars

\* The magic of the k-th release in chronological order: "AC10" and the two
\* digits of 12, 14, 15, 18, 21, 27, 32.
Release(k) ==
    LET n == <<12, 14, 15, 18, 21, 27, 32>>[k]
    IN  <<65, 67, 49, 48, 48 + (n \div 10), 48 + (n % 10)>>

Words ==
    {<<0, 0, 0, 0>>, <<1, 0, 0, 0>>, <<255, 255, 255, 127>>, <<0, 0, 0, 128>>,
     <<255, 255, 255, 255>>, <<120, 86, 52, 18>>}

\* the octets that hold the bits b, low bit first, padded with 0 bits
PackBits(b) ==
    LET padded == ZeroExtend(b, 8 * ((Len(b) + 7) \div 8))
    IN  [k \in 1..(Len(padded) \div 8) |-> UVal(SubSeq(padded, 8 * k - 7, 8 * k))]

LongLongInputs ==
    {PackBits(UBits(sel, 2) \o BitsOf(lo, 0, 32, 32) \o BitsOf(hi, 0, 32, 32)) :
        sel \in 0..3, lo \in Words, hi \in Words}

InitLongLong == src \in LongLongInputs /\ InitReader

Call_read_bitlonglong == Return("read_bitlonglong", 0, read_bitlonglong(Rd), version_set)

Call_read_raw_longlong == Return("read_raw_longlong", 0, read_raw_longlong(Rd), version_set)

Call_read_bit == Return("read_bit", 0, read_bit(Rd), version_set)

Call_read_raw_char == Return("read_raw_char", 0, read_raw_char(Rd), version_set)

Call_read_raw_short == Return("read_raw_short", 0, read_raw_short(Rd), version_set)

Call_read_raw_long == Return("read_raw_long", 0, read_raw_long(Rd), version_set)

Call_read_bitshort == Return("read_bitshort", 0, read_bitshort(Rd), version_set)

Call_read_bitlong == Return("read_bitlong", 0, read_bitlong(Rd), version_set)

Call_read_bitdouble == Return("read_bitdouble", 0, read_bitdouble(Rd), version_set)

NextLongLong ==
    \/ Call_read_bitlonglong
    \/ Call_read_raw_longlong
    \/ Call_read_raw_char
    \/ Call_read_raw_short
    \/ Call_read_raw_long
    \/ Call_read_bitshort
    \/ Call_read_bitlong
    \/ Call_read_bitdouble
    \/ Call_read_bit

SpecLongLong == InitLongLong /\ [][NextLongLong]_vars

(***************************************************************************)
(* C9: read_bitlonglong with selector 0 returns the 64-bit value           *)
(* lo + hi * 2^32 of the two words that follow (lo first), which is what   *)
(* read_raw_longlong returns on those 64 bits; selector 1 returns the next *)
(* 8-bit value, selector 2 returns 0 and selector 3 returns 256.           *)
(***************************************************************************)
C9_BitLongLongValue ==
    (op = "read_bitlonglong" /\ Remaining(pre) >= 2) =>
        LET p == BitPos(pre)
            sel == UVal(StreamBits(p, 2, 2))
        IN  /\ (sel = 0 /\ Remaining(pre) >= 66) =>
                /\ ret.tag = "Some"
                /\ ret.val = StreamBits(p + 2, 64, 64)
                /\ ret.val = read_raw_longlong(read_bits(At(pre), 2).rd).val
            /\ (sel = 1 /\ Remaining(pre) >= 10) =>
                ret.tag = "Some" /\ ret.val = StreamBits(p + 2, 8, 64)
            /\ sel = 2 => ret.tag = "Some" /\ ret.val = Zeros(64)
            /\ sel = 3 => ret.tag = "Some" /\ ret.val = UBits(256, 64)

(***************************************************************************)
(* C11: read_bitdouble whose selector reads as 3 hands a failure back to   *)
(* its caller: it returns no floating-point value and it does not abort.   *)
(***************************************************************************)
C11_InvalidSelectorIsReturned ==
    (/\ op = "read_bitdouble"
     /\ Remaining(pre) >= 2
     /\ UVal(StreamBits(BitPos(pre), 2, 2)) = 3)
        => ret.tag \notin {"Some", "Panic"}

(***************************************************************************)
(* SpecModular: read_modular_char and read_modular_short over chunk        *)
(* sequences, in a build with and in a build without overflow checks.      *)
(***************************************************************************)
ChunkBytes == {130, 36, 255}

RECURSIVE SeqsUpTo(_, _)
SeqsUpTo(S, n) ==
    IF n = 0 THEN {<<>>}
    ELSE LET shorter == SeqsUpTo(S, n - 1)
         IN  shorter \cup {Append(q, x) : q \in {t \in shorter : Len(t) = n - 1}, x \in S}

\* The octets a decoder without a loop can pull in one call: the widest,
\* read_bit_extrusion, reads 1 + 3 * (2 + 64) bits, which started inside an
\* octet lie in one octet more than their count needs.
MaxOctetsPerCall == ((1 + 3 * (2 + 64) + 7) \div 8) + 1

\* A source of chunks that all ask for another chunk, one octet longer than
\* that.
Runaway == [i \in 1..(MaxOctetsPerCall + 1) |-> 130]

ModularInputs == SeqsUpTo(ChunkBytes, MaxChunkBytes) \cup {Runaway}

InitModular == src \in ModularInputs /\ InitReader

Call_read_modular_char(overflow_checks) ==
    Return("read_modular_char", 0, read_modular_char(Rd, overflow_checks), version_set)

Call_read_modular_short(overflow_checks) ==
    Return("read_modular_short", 0, read_modular_short(Rd, overflow_checks), version_set)

NextModular ==
    \/ \E overflow_checks \in BOOLEAN : Call_read_modular_char(overflow_checks)
    \/ \E overflow_checks \in BOOLEAN : Call_read_modular_short(overflow_checks)

SpecModular == InitModular /\ [][NextModular]_vars

\* chunk i (from 0) of width cw, from stream bit p on
ChunkAt(p, cw, i) == StreamBits(p + i * cw, cw, cw)

\* the indexes of the chunks, among the whole ones left, whose top bit is clear
ClearChunks(p, cw, left) == {i \in 0..((left \div cw) - 1) : ChunkAt(p, cw, i)[cw] = 0}

Least(S) == CHOOSE i \in S : \A j \in S : i <= j

\* the bits of the sum of payload(c_i) * 2^((cw - 1) * i) for i in 0..k:
\* the payloads one after the other
RECURSIVE PayloadBits(_, _, _)
PayloadBits(p, cw, k) ==
    IF k < 0 THEN <<>>
    ELSE PayloadBits(p, cw, k - 1) \o SubSeq(ChunkAt(p, cw, k), 1, cw - 1)

(***************************************************************************)
(* C10: read_modular_char (8-bit chunks) and read_modular_short (16-bit    *)
(* chunks), where c_k is the first chunk with a clear top bit, consume     *)
(* the k + 1 chunks and return the sum of payload(c_i) * 2^(w * i), not    *)
(* wrapped and not truncated; they return None when the source ends        *)
(* before such a chunk.                                                    *)
(***************************************************************************)
C10_ModularValue ==
    (op \in {"read_modular_char", "read_modular_short"}) =>
        LET cw == IF op = "read_modular_char" THEN 8 ELSE 16
            p == BitPos(pre)
            clear == ClearChunks(p, cw, Remaining(pre))
        IN  IF clear = {} THEN ret.tag = "None"
            ELSE LET k == Least(clear)
                     sum == PayloadBits(p, cw, k)
                 IN  /\ ret.tag = "Some"
                     /\ BitPos(Rd) = p + (k + 1) * cw
                     /\ \A j \in 32..Len(sum) : sum[j] = 0
                     /\ ret.val = UVal(ZeroExtend(SubSeq(sum, 1, IF Len(sum) < 31 THEN Len(sum) ELSE 31), 31))

(***************************************************************************)
(* C13: every call of a primitive decoder ends with a value or with None   *)
(* (the stream is exhausted), and pulls no more octets from the source     *)
(* than a constant that does not depend on the source.                     *)
(***************************************************************************)
PrimitiveOps ==
    {"read_bits", "read_bit", "read_bit_triplet", "read_bitshort", "read_bitlong",
     "read_bitlonglong", "read_bitdouble", "read_modular_char", "read_modular_short",
     "read_raw_char", "read_raw_short", "read_raw_long", "read_raw_longlong",
     "read_raw_double", "read_bit_extrusion", "read_bitdouble_with_default",
     "read_object_type"}

C13_CallsAreBounded ==
    op \in PrimitiveOps =>
        /\ ret.tag \in {"Some", "None"}
        /\ pos - pre.pos <= MaxOctetsPerCall

(***************************************************************************)
(* C14: read_raw_char, read_raw_short, read_raw_long and read_raw_longlong *)
(* return, from any bit offset, the next 8, 16, 32, 64 stream bits (first  *)
(* bit least significant; the low 32-bit word of the 64 first) as a two's- *)
(* complement integer of that width, and consume exactly that many bits:   *)
(* bits that are all 1 give -1, a 1 bit followed by 0 bits gives 1.        *)
(***************************************************************************)
\* the value of the bits b, of which the last has weight -2^(Len(b) - 1)
TwosComplement(b) ==
    LET w == Len(b)
        half == 2 ^ (w - 2)
    IN  (UVal(SubSeq(b, 1, w - 1)) - b[w] * half) - b[w] * half

RawWidth(name) ==
    CASE name = "read_raw_char" -> 8
      [] name = "read_raw_short" -> 16
      [] name = "read_raw_long" -> 32
      [] name = "read_raw_longlong" -> 64

RawOps == {"read_raw_char", "read_raw_short", "read_raw_long", "read_raw_longlong"}

C14_RawReadsAreSigned ==
    (op \in RawOps /\ Remaining(pre) >= RawWidth(op)) =>
        LET w == RawWidth(op)
            bits == StreamBits(BitPos(pre), w, w)
        IN  /\ ret.tag = "Some"
            /\ BitPos(Rd) = BitPos(pre) + w
            /\ w <= 32 => ret.val = TwosComplement(bits)
            /\ w = 64 => ret.val = bits
            /\ (w <= 32 /\ \A i \in 1..w : bits[i] = 1) => ret.val = 0 - 1
            /\ (w <= 32 /\ bits[1] = 1 /\ \A i \in 2..w : bits[i] = 0) => ret.val = 1

\* a 32-bit read of a negative value that starts inside an octet
C14_Witness ==
    /\ op = "read_raw_long" /\ ret.tag = "Some"
    /\ pre.cur_bit \in 1..7
    /\ ret.val < 0 - 1

\* the 64-bit read of sixty-four 1 bits: -1
C14_WitnessLongLong ==
    /\ op = "read_raw_longlong" /\ ret.tag = "Some"
    /\ ret.val = [i \in 1..64 |-> 1]

(***************************************************************************)
(* C15: read_bitshort and read_bitlong read a 2-bit selector s.  s = 0     *)
(* returns the next 16 (32) bits as a signed value, 2 + 16 (2 + 32) bits   *)
(* consumed in all; s = 1 returns the next 8 bits as a value in 0..255,    *)
(* 10 bits consumed; s = 2 returns 0 and s = 3 returns 256, 2 bits         *)
(* consumed.  When the bits an arm needs are not all there, the result is  *)
(* None, with no value.                                                    *)
(***************************************************************************)
\* the bits that follow the selector sel, for a raw arm of w bits
ArmWidth(sel, w) == CASE sel = 0 -> w [] sel = 1 -> 8 [] OTHER -> 0

C15_SelectorCodedIntegers ==
    op \in {"read_bitshort", "read_bitlong"} =>
        LET w == IF op = "read_bitshort" THEN 16 ELSE 32
            p == BitPos(pre)
        IN  IF Remaining(pre) < 2 THEN ret = [tag |-> "None", val |-> <<>>]
            ELSE LET sel == StreamBit(p) + 2 * StreamBit(p + 1)
                     need == 2 + ArmWidth(sel, w)
                 IN  IF Remaining(pre) < need THEN ret = [tag |-> "None", val |-> <<>>]
                     ELSE /\ ret.tag = "Some"
                          /\ BitPos(Rd) = p + need
                          /\ sel = 0 => ret.val = TwosComplement(StreamBits(p + 2, w, w))
                          /\ sel = 1 => /\ ret.val = UVal(StreamBits(p + 2, 8, 8))
                                        /\ ret.val \in 0..255
                          /\ sel = 2 => ret.val = 0
                          /\ sel = 3 => ret.val = 256

\* an 8-bit arm whose value has its top bit set: it is not sign-extended
C15_Witness ==
    /\ op = "read_bitlong" /\ ret.tag = "Some"
    /\ BitPos(Rd) = BitPos(pre) + 10
    /\ ret.val >= 128

\* a raw 16-bit arm that returns a negative value from inside an octet
C15_WitnessRaw ==
    /\ op = "read_bitshort" /\ ret.tag = "Some"
    /\ BitPos(Rd) = BitPos(pre) + 18
    /\ pre.cur_bit \in 1..7
    /\ ret.val < 0

\* a raw arm cut short by the end of the source
C15_WitnessExhausted ==
    /\ op = "read_bitlong" /\ ret.tag = "None"
    /\ Remaining(pre) >= 2
    /\ StreamBit(BitPos(pre)) + 2 * StreamBit(BitPos(pre) + 1) = 0

(***************************************************************************)
(* C16: read_object_type on a reader of release AC1021 or earlier returns  *)
(* what read_bitshort returns on the same input and leaves the cursor      *)
(* where read_bitshort leaves it; on a later release it reads a 2-bit      *)
(* selector and, for the octet b in 0..255 that follows, returns b for     *)
(* selector 0 and b + 0x1F0 (a value in 0x1F0..0x2EF) for selector 1; for  *)
(* selector 2 or 3 it returns the 16-bit value that follows.               *)
(***************************************************************************)
C16_ObjectTypeValue ==
    op = "read_object_type" =>
        LET p == BitPos(pre)
        IN  IF version \in {AC1012, AC1014, AC1015, AC1018, AC1021}
            THEN LET short == read_bitshort(At(pre))
                 IN  /\ ret = [tag |-> short.tag, val |-> short.val]
                     /\ Cursor(Rd) = Cursor(short.rd)
            ELSE Remaining(pre) >= 2 =>
                 LET sel == StreamBit(p) + 2 * StreamBit(p + 1)
                     b == UVal(StreamBits(p + 2, 8, 8))
                 IN  /\ (sel = 0 /\ Remaining(pre) >= 10) =>
                            ret = [tag |-> "Some", val |-> b]
                     /\ (sel = 1 /\ Remaining(pre) >= 10) =>
                            /\ ret = [tag |-> "Some", val |-> b + 496]
                            /\ ret.val \in 496..751
                     /\ (sel \in {2, 3} /\ Remaining(pre) >= 18) =>
                            /\ ret.tag = "Some"
                            /\ ret.val = TwosComplement(StreamBits(p + 2, 16, 16))

(***************************************************************************)
(* SpecFreeSpace: read_obj_free_space on a reader of any release, from a   *)
(* cursor that a caller has moved up to MaxLead bits into the source.  The *)
(* sources are just shorter than, as long as, and just longer than the two *)
(* shapes of the record.                                                   *)
(***************************************************************************)
\* The most bits read ahead of the record.
MaxLead == 9

FreeSpaceLengths ==
    {OldFreeSpaceBytes - 1, OldFreeSpaceBytes, OldFreeSpaceBytes + 1,
     OldFreeSpaceBytes + 2, NewFreeSpaceBytes - 1, NewFreeSpaceBytes,
     NewFreeSpaceBytes + 1, NewFreeSpaceBytes + 2}

FreeSpaceSources == {Stream(seed, 59, len) : seed \in Seeds, len \in FreeSpaceLengths}

InitFreeSpace == src \in FreeSpaceSources /\ InitReader

Call_lead_bit == BitPos(Rd) < MaxLead /\ Call_read_bit

NextFreeSpace ==
    \/ \E v \in DWGVersion : Call_set_version(v)
    \/ Call_lead_bit
    \/ Call_read_obj_free_space

SpecFreeSpace == InitFreeSpace /\ [][NextFreeSpace]_vars

(***************************************************************************)
(* C17: read_obj_free_space takes its shape from the version alone: up to  *)
(* release AC1021 it consumes 4 + 4 + 8 + 4 + 1 + 4 * 8 = 53 octets, on    *)
(* later releases 11 * 8 = 88 octets; it succeeds, whatever the fields     *)
(* hold, when that many octets remain and returns None exactly when fewer  *)
(* remain.                                                                 *)
(***************************************************************************)
C17_FreeSpaceShape ==
    op = "read_obj_free_space" =>
        LET octets == IF version \in {AC1012, AC1014, AC1015, AC1018, AC1021}
                      THEN 53 ELSE 88
        IN  /\ ret.tag \in {"Some", "None"}
            /\ (ret.tag = "Some") <=> (Remaining(pre) >= 8 * octets)
            /\ ret.tag = "Some" => BitPos(Rd) = BitPos(pre) + 8 * octets
            /\ ret.tag = "None" => ret.val = <<>>

\* a record of the later shape read from inside an octet
C17_Witness ==
    /\ op = "read_obj_free_space" /\ ret.tag = "Some"
    /\ version = AC1027
    /\ pre.cur_bit \in 1..7
    /\ BitPos(Rd) = BitPos(pre) + 8 * 88

\* a record of the earlier shape that is one bit short
C17_WitnessShort ==
    /\ op = "read_obj_free_space" /\ ret.tag = "None"
    /\ version = AC1021
    /\ Remaining(pre) = 8 * 53 - 1

(***************************************************************************)
(* SpecDecoders: a reader over a byte source, read with any sequence of    *)
(* the decoders of BitReader, its version set at any time.                 *)
(***************************************************************************)
DecoderSources == {Stream(seed, 222, len) : seed \in {255, 164}, len \in 0..MaxLen}

\* the widths read_bits is called with
DecoderWidths == {1, 3, 8, 13, 32}

\* releases on either side of the two boundaries the decoders branch on
GateVersions == {AC1014, AC1027}

InitDecoders == src \in DecoderSources /\ InitReader

Call_read_bit_triplet == Return("read_bit_triplet", 0, read_bit_triplet(Rd), version_set)

Call_read_raw_double == Return("read_raw_double", 0, read_raw_double(Rd), version_set)

NextDecoders ==
    \/ \E N \in DecoderWidths : Call_read_bits(N)
    \/ \E v \in GateVersions : Call_set_version(v)
    \/ Call_read_version
    \/ Call_read_bit
    \/ Call_read_bit_triplet
    \/ Call_read_bitshort
    \/ Call_read_bitlong
    \/ Call_read_bitlonglong
    \/ Call_read_bitdouble
    \/ \E overflow_checks \in BOOLEAN : Call_read_modular_char(overflow_checks)
    \/ \E overflow_checks \in BOOLEAN : Call_read_modular_short(overflow_checks)
    \/ Call_read_raw_char
    \/ Call_read_raw_short
    \/ Call_read_raw_long
    \/ Call_read_raw_longlong
    \/ Call_read_raw_double
    \/ Call_read_bit_extrusion
    \/ Call_read_bitdouble_with_default
    \/ Call_read_object_type

SpecDecoders == InitDecoders /\ [][NextDecoders]_vars

\* every bit of the source is consumed
Spent == cur_bit = 8 /\ pos = Len(src)

\* the octet pulled last, or the octet of a new reader when none was pulled
LastOctet == IF Len(src) = 0 THEN 0 ELSE src[Len(src)]

(***************************************************************************)
(* C18: a failed read is final and does not rewind.  When read_bits(n)     *)
(* returns None, every bit of the source has been consumed (offset 8, no   *)
(* octet left), the current octet is the last one pulled and the version   *)
(* is as it was; and every later read, of any width and by any decoder,    *)
(* returns None too and leaves the reader as it is.                        *)
(***************************************************************************)
C18_FailedReadIsTerminal ==
    /\ []((op = "read_bits" /\ ret.tag = "None") =>
              (Spent /\ cur_byte = LastOctet /\ ret.val = <<>>))
    /\ [][op' = "read_bits" => version' = version]_vars
    /\ [][(Spent /\ op' # "set_version") =>
              (ret'.tag = "None" /\ Spent' /\ cur_byte' = cur_byte /\ version' = version)]_vars

\* a decoder called after the source was spent by a read of more bits than
\* were left
C18_Witness ==
    /\ op = "read_object_type" /\ ret.tag = "None"
    /\ pre.cur_bit = 8 /\ pre.pos = Len(src) /\ Len(src) > 0
    /\ version = AC1027

\* a read that fails after it has pulled two octets
C18_WitnessFailed ==
    /\ op = "read_bits" /\ ret.tag = "None"
    /\ pre.cur_bit \in 1..7
    /\ pos = pre.pos + 2

(***************************************************************************)
(* C19: in every state reached from BitReader::new by decoder calls, the   *)
(* in-byte offset is in 0..8 and the octets pulled are those the bits      *)
(* consumed need and no more: with k = 8 * pos - (8 - cur_bit) the bits    *)
(* consumed, pos = ceil(k / 8) and the current octet is octet pos of the   *)
(* source.  No call moves the cursor backward; a successful read of fixed  *)
(* width adds its width to k, and a failed one leaves the source spent.    *)
(***************************************************************************)
\* the bits the fixed-width reads consume when they succeed
FixedBits(name, a) ==
    CASE name = "read_bits" -> a
      [] name = "read_bit" -> 1
      [] name = "read_raw_char" -> 8
      [] name = "read_raw_short" -> 16
      [] name = "read_raw_long" -> 32
      [] name \in {"read_raw_longlong", "read_raw_double"} -> 64
      [] name = "read_version" -> 48

FixedOps ==
    {"read_bits", "read_bit", "read_raw_char", "read_raw_short", "read_raw_long",
     "read_raw_longlong", "read_raw_double", "read_version"}

CursorInv ==
    /\ cur_bit \in 0..8
    /\ pos \in 0..Len(src)
    /\ BitPos(Rd) >= 0
    /\ pos = (BitPos(Rd) + 7) \div 8
    /\ cur_byte = IF pos = 0 THEN 0 ELSE src[pos]

CursorStep ==
    /\ pos' >= pos
    /\ BitPos(Rd)' >= BitPos(Rd)
    /\ (op' \in FixedOps /\ ret'.tag = "Some") =>
            BitPos(Rd)' = BitPos(Rd) + FixedBits(op', arg')
    /\ ret'.tag = "None" => Spent'

C19_CursorBookkeeping == []CursorInv /\ [][CursorStep]_vars

\* reads that end on the last bit of an octet while the source has more:
\* the next octet is not pulled yet
C19_Witness ==
    /\ op = "read_bits" /\ ret.tag = "Some" /\ arg = 13
    /\ cur_bit = 8
    /\ pos \in 2..(Len(src) - 1)

====
